---- MODULE Spec2Model ----
(***************************************************************************)
(* A model of the DCF valuation engine (dcf_engine.py), of the sensitivity *)
(* grids of excel_builder.build_sensitivity and of data_fetcher.fetch_all. *)
(*                                                                         *)
(* Numbers.  The program computes in double precision.  The model computes *)
(* in fixed point: a number x is the integer x * Scale, every product and  *)
(* quotient is truncated toward zero, sums and differences are exact.      *)
(* Every constant of the program (0.04, 0.01, 0.005, 0.025, 0.15, 0.21,    *)
(* 0.7, 0.3, the scenario deltas, the grid deltas) is a multiple of        *)
(* 1/Scale and is therefore represented exactly.                           *)
(*                                                                         *)
(* Exceptions.  A division of the program is modelled by FDiv, which is    *)
(* undefined for a zero divisor; an operation whose code can divide by     *)
(* zero or index past the end of a list has a companion operator telling   *)
(* which exception it raises, and the action modelling the call ends the   *)
(* run in pc = "raised" in that case.                                      *)
(***************************************************************************)
EXTENDS Integers, Sequences, FiniteSets, TLC

\* ------------------------------------------------------------------------
\* Bounds of the model
\* ------------------------------------------------------------------------

\* Largest number of trailing periods K of a statement series.
MaxK == 2

\* Largest projection horizon N (projection_years).
MaxYears == 2

\* Largest number of runs of run_all_scenarios in one behaviour of SpecPar.
MaxRuns == 3

\* ------------------------------------------------------------------------
\* Fixed-point arithmetic
\* ------------------------------------------------------------------------

\* Resolution of the fixed-point numbers: 1/1000.
Scale == 10 * 10 * 10

One == Scale

\* The decimal literal n/d, d a divisor of Scale (0.04 is Dec(4, 100)).
Dec(n, d) == n * (Scale \div d)

\* An integer of the program as a fixed-point number.
Fix(n) == n * Scale

Abs(x) == IF x < 0 THEN -x ELSE x

Sgn(x) == IF x < 0 THEN -1 ELSE 1

Max(a, b) == IF a >= b THEN a ELSE b

Min(a, b) == IF a <= b THEN a ELSE b

\* a * b, truncated toward zero.
FMul(a, b) ==
    LET x == Abs(a)
        y == Abs(b)
    IN  Sgn(a) * Sgn(b) * ((x \div Scale) * y + ((x % Scale) * y) \div Scale)

\* a / b, truncated toward zero; undefined (a TLC error) for b = 0.
FDiv(a, b) ==
    LET x == Abs(a)
        y == Abs(b)
    IN  Sgn(a) * Sgn(b) * ((x \div y) * Scale + ((x % y) * Scale) \div y)

\* a ** n for an integer n >= 0.
RECURSIVE FPow(_, _)
FPow(a, n) == IF n = 0 THEN One ELSE FMul(FPow(a, n - 1), a)

\* sum(s) of a list.
RECURSIVE Sum(_)
Sum(s) == IF Len(s) = 0 THEN 0 ELSE s[1] + Sum(Tail(s))

\* s[-1]
Last(s) == s[Len(s)]

\* ------------------------------------------------------------------------
\* Scenario registry (dcf_engine.py, SCENARIOS)
\* ------------------------------------------------------------------------

Scenario(key, name, g, m, w, t) ==
    [key |-> key, name |-> name, revenue_growth_adj |-> g, margin_adj |-> m,
     wacc_adj |-> w, terminal_growth_adj |-> t]

\* The dict as built at import time, in insertion order.
BUILTIN_SCENARIOS ==
    << Scenario("base", "Base Case", 0, 0, 0, 0),
       Scenario("bull", "Bull Case", Dec(3, 100), Dec(2, 100), -Dec(1, 100), Dec(5, 1000)),
       Scenario("bear", "Bear Case", -Dec(3, 100), -Dec(2, 100), Dec(15, 1000), -Dec(5, 1000)),
       Scenario("rate_hike", "Rising Rates", 0, -Dec(5, 1000), Dec(2, 100), 0),
       Scenario("rate_cut", "Falling Rates", 0, Dec(5, 1000), -Dec(15, 1000), 0) >>

\* ------------------------------------------------------------------------
\* compute_wacc
\* ------------------------------------------------------------------------

\* Faulty variant: the substitution of 1 for a zero debt (line 101) is missing.
CostOfDebt_unguarded(total_debt0, interest_expense0, rf) ==
    LET interest == IF interest_expense0 # 0 THEN Abs(interest_expense0) ELSE 0
    IN  IF total_debt0 > 0 THEN FDiv(interest, total_debt0) ELSE rf

\* Faulty variant: the test of line 103 is debt != 0, a negative debt divides.
CostOfDebt_nonzero(total_debt0, interest_expense0, rf) ==
    LET debt == IF total_debt0 # 0 THEN total_debt0 ELSE One
        interest == IF interest_expense0 # 0 THEN Abs(interest_expense0) ELSE 0
    IN  IF debt # 0 THEN FDiv(interest, debt) ELSE rf

\* Lines 101-103: debt, interest and cost_of_debt.  The 1 substituted for a
\* zero debt is the number 1.
CostOfDebt(total_debt0, interest_expense0, rf) ==
    LET debt == IF total_debt0 # 0 THEN total_debt0 ELSE One
        interest == IF interest_expense0 # 0 THEN Abs(interest_expense0) ELSE 0
    IN  IF debt > 0 THEN FDiv(interest, debt) ELSE rf

\* Lines 106-108: tax_prov, pretax_income and tax_rate of compute_wacc.
WaccTaxRate(net_income0, tax_provision0) ==
    LET tax_prov == IF tax_provision0 # 0 THEN Abs(tax_provision0) ELSE 0
        pretax_income == IF net_income0 # 0 THEN Abs(net_income0) + tax_prov ELSE One
    IN  IF pretax_income > 0 THEN FDiv(tax_prov, pretax_income) ELSE Dec(21, 100)

\* Line 111: market_cap or current_price * shares_outstanding.
EquityValue(stock) ==
    IF stock.market_cap # 0 THEN stock.market_cap
    ELSE FMul(stock.current_price, stock.shares_outstanding)

\* Faulty variant: the fallback weights are used for a zero total only.
CapitalWeights_nonzero(equity_value, debt_value) ==
    LET total_value == equity_value + debt_value
    IN  [equity |-> IF total_value # 0 THEN FDiv(equity_value, total_value) ELSE Dec(7, 10),
         debt |-> IF total_value # 0 THEN FDiv(debt_value, total_value) ELSE Dec(3, 10)]

\* Faulty variant: the weight of debt is tested on the debt itself, so a
\* company without debt gets the fallback weight 0.3 next to an equity
\* weight of 1.
CapitalWeights_separate_tests(equity_value, debt_value) ==
    LET total_value == equity_value + debt_value
    IN  [equity |-> IF total_value > 0 THEN FDiv(equity_value, total_value) ELSE Dec(7, 10),
         debt |-> IF total_value > 0 /\ debt_value > 0
                  THEN FDiv(debt_value, total_value) ELSE Dec(3, 10)]

\* Lines 113-116: total_value, weight_equity and weight_debt.
CapitalWeights(equity_value, debt_value) ==
    LET total_value == equity_value + debt_value
    IN  [equity |-> IF total_value > 0 THEN FDiv(equity_value, total_value) ELSE Dec(7, 10),
         debt |-> IF total_value > 0 THEN FDiv(debt_value, total_value) ELSE Dec(3, 10)]

\* The divisors of compute_wacc: the debt of line 103, the pretax income of
\* line 108 and the total value of lines 115-116, each where its test lets
\* the division happen.
compute_wacc_divisors(stock, financials) ==
    LET debt == IF financials.total_debt[1] # 0 THEN financials.total_debt[1] ELSE One
        tax_prov == IF financials.tax_provision[1] # 0
                    THEN Abs(financials.tax_provision[1]) ELSE 0
        pretax_income == IF financials.net_income[1] # 0
                         THEN Abs(financials.net_income[1]) + tax_prov ELSE One
        total_value == EquityValue(stock) + financials.total_debt[1]
    IN  (IF debt > 0 THEN {debt} ELSE {})
        \cup (IF pretax_income > 0 THEN {pretax_income} ELSE {})
        \cup (IF total_value > 0 THEN {total_value} ELSE {})

compute_wacc(stock, financials, rates, equity_risk_premium) ==
    LET rf == rates.risk_free_rate
        beta == IF stock.beta # 0 THEN stock.beta ELSE One
        cost_of_equity == rf + FMul(beta, equity_risk_premium)
        cost_of_debt == CostOfDebt(financials.total_debt[1], financials.interest_expense[1], rf)
        tax_rate == WaccTaxRate(financials.net_income[1], financials.tax_provision[1])
        equity_value == EquityValue(stock)
        debt_value == financials.total_debt[1]
        weight_equity == CapitalWeights(equity_value, debt_value).equity
        weight_debt == CapitalWeights(equity_value, debt_value).debt
        wacc == FMul(weight_equity, cost_of_equity)
                + FMul(FMul(weight_debt, cost_of_debt), One - tax_rate)
    IN  [wacc |-> wacc, cost_of_equity |-> cost_of_equity, cost_of_debt |-> cost_of_debt,
         tax_rate |-> tax_rate, weight_equity |-> weight_equity, weight_debt |-> weight_debt,
         risk_free_rate |-> rf, beta |-> beta, equity_risk_premium |-> equity_risk_premium,
         equity_value |-> equity_value, debt_value |-> debt_value]

\* ------------------------------------------------------------------------
\* compute_historical_metrics
\* ------------------------------------------------------------------------

\* The list [num(i) / rev[i] if rev[i] else 0 for i in range(len(rev))].
PerRevenue(rev, s, absolute) ==
    [i \in 1..Len(rev) |->
        IF rev[i] # 0 THEN FDiv(IF absolute THEN Abs(s[i]) ELSE s[i], rev[i]) ELSE 0]

\* Faulty variant: a list of one sample is treated like an empty one.
Average_two(s, default) == IF Len(s) > 1 THEN FDiv(Sum(s), Fix(Len(s))) ELSE default

\* sum(s) / len(s) if s else default
Average(s, default) == IF Len(s) > 0 THEN FDiv(Sum(s), Fix(Len(s))) ELSE default

\* The series a list comprehension of compute_historical_metrics indexes by
\* the positions of revenue.
MetricSeries(financials) ==
    << financials.operating_income, financials.net_income, financials.free_cash_flow,
       financials.capex, financials.depreciation >>

\* "IndexError" when a comprehension reads s[i] past the end of s (it reads
\* s[i] only where rev[i] is nonzero: the condition is evaluated first),
\* "" when the call returns.
compute_historical_metrics_raises(financials) ==
    LET rev == financials.revenue
    IN  IF \E k \in 1..Len(MetricSeries(financials)) : \E i \in 1..Len(rev) :
              rev[i] # 0 /\ i > Len(MetricSeries(financials)[k])
        THEN "IndexError" ELSE ""

\* Faulty variant: the growth is divided by rev[i + 1], not by its absolute value.
GrowthSample_signed(cur, prev) == IF prev # 0 THEN FDiv(cur - prev, prev) ELSE 0

\* Lines 151-154: the sample appended for rev[i] = cur and rev[i + 1] = prev.
GrowthSample(cur, prev) == IF prev # 0 THEN FDiv(cur - prev, Abs(prev)) ELSE 0

compute_historical_metrics(financials) ==
    LET rev == financials.revenue
        rev_growths == [i \in 1..(Len(rev) - 1) |-> GrowthSample(rev[i], rev[i + 1])]
        op_margins == PerRevenue(rev, financials.operating_income, FALSE)
        net_margins == PerRevenue(rev, financials.net_income, FALSE)
        fcf_margins == PerRevenue(rev, financials.free_cash_flow, FALSE)
        capex_pcts == PerRevenue(rev, financials.capex, TRUE)
        da_pcts == PerRevenue(rev, financials.depreciation, TRUE)
    IN  [revenue_growths |-> rev_growths, operating_margins |-> op_margins,
         net_margins |-> net_margins, fcf_margins |-> fcf_margins,
         capex_pcts |-> capex_pcts, da_pcts |-> da_pcts,
         avg_revenue_growth |-> Average(rev_growths, Dec(5, 100)),
         avg_operating_margin |-> Average(op_margins, Dec(15, 100)),
         avg_fcf_margin |-> Average(fcf_margins, Dec(10, 100)),
         avg_capex_pct |-> Average(capex_pcts, Dec(3, 100)),
         avg_da_pct |-> Average(da_pcts, Dec(3, 100))]

\* ------------------------------------------------------------------------
\* project_fcf
\* ------------------------------------------------------------------------

\* Faulty variant: the floor of line 212 is missing.
AdjGrowth_nofloor(base_growth, revenue_growth_adj) == base_growth + revenue_growth_adj

\* Line 212: adj_growth = max(base_growth + scenario.revenue_growth_adj, -0.15).
AdjGrowth(base_growth, revenue_growth_adj) ==
    Max(base_growth + revenue_growth_adj, -Dec(15, 100))

\* Faulty variant: the floor of line 213 is missing.
AdjMargin_nofloor(base_op_margin, margin_adj) == base_op_margin + margin_adj

\* Line 213: adj_margin = max(base_op_margin + scenario.margin_adj, 0.01).
AdjMargin(base_op_margin, margin_adj) ==
    Max(base_op_margin + margin_adj, Dec(1, 100))

\* Line 226: fade_factor = 1 - (yr - 1) / (projection_years * 2).
FadeFactor(yr, years) == One - FDiv(Fix(yr - 1), Fix(years * 2))

\* Faulty variant: the floor of line 228 is applied whatever the sign of
\* adj_growth.
GrowthAt_floored(adj_growth, yr, years) ==
    Max(FMul(adj_growth, FadeFactor(yr, years)), Dec(5, 1000))

\* Lines 226-228: the faded rate of year yr, floored at 0.005 when
\* adj_growth is positive.
GrowthAt(adj_growth, yr, years) ==
    LET faded == FMul(adj_growth, FadeFactor(yr, years))
    IN  IF adj_growth > 0 THEN Max(faded, Dec(5, 1000)) ELSE faded

\* Faulty variant: the exponent of line 230 is missing, so the rate is
\* applied once whatever the year.
ProjectedRevenue_linear(base_rev, growth, yr) == FMul(base_rev, One + growth)

\* Line 230: rev = base_rev * (1 + growth) ** yr.
ProjectedRevenue(base_rev, growth, yr) == FMul(base_rev, FPow(One + growth, yr))

\* Lines 224-244: one pass of the projection loop.
ProjectYear(base_rev, adj_growth, adj_margin, tax_rate, da_pct, capex_pct, yr, years) ==
    LET growth == GrowthAt(adj_growth, yr, years)
        rev == ProjectedRevenue(base_rev, growth, yr)
        ebit == FMul(rev, adj_margin)
        nopat == FMul(ebit, One - tax_rate)
        da == FMul(rev, da_pct)
        capex == FMul(rev, capex_pct)
    IN  [growth |-> growth, rev |-> rev, ebit |-> ebit, nopat |-> nopat, da |-> da,
         capex |-> capex, fcf |-> nopat + da - capex, margin |-> adj_margin]

\* Lines 207-209: tax_prov, pretax and tax_rate of project_fcf.
ProjectionTaxRate(net_income0, tax_provision0) ==
    LET tax_prov == IF tax_provision0 # 0 THEN Abs(tax_provision0) ELSE 0
        pretax == Abs(net_income0) + tax_prov
    IN  IF pretax > 0 THEN FDiv(tax_prov, pretax) ELSE Dec(21, 100)

project_fcf(financials, metrics, scenario, projection_years) ==
    LET base_rev == financials.revenue[1]
        tax_rate == ProjectionTaxRate(financials.net_income[1], financials.tax_provision[1])
        adj_growth == AdjGrowth(metrics.avg_revenue_growth, scenario.revenue_growth_adj)
        adj_margin == AdjMargin(metrics.avg_operating_margin, scenario.margin_adj)
        year == [yr \in 1..projection_years |->
                    ProjectYear(base_rev, adj_growth, adj_margin, tax_rate,
                                metrics.avg_da_pct, metrics.avg_capex_pct, yr, projection_years)]
    IN  [scenario |-> scenario.name,
         projection_years |-> projection_years,
         growth_rates |-> [yr \in 1..projection_years |-> year[yr].growth],
         margins |-> [yr \in 1..projection_years |-> year[yr].margin],
         tax_rate |-> tax_rate,
         projected_revenue |-> [yr \in 1..projection_years |-> year[yr].rev],
         projected_ebit |-> [yr \in 1..projection_years |-> year[yr].ebit],
         projected_nopat |-> [yr \in 1..projection_years |-> year[yr].nopat],
         projected_da |-> [yr \in 1..projection_years |-> year[yr].da],
         projected_capex |-> [yr \in 1..projection_years |-> year[yr].capex],
         projected_fcf |-> [yr \in 1..projection_years |-> year[yr].fcf]]

\* ------------------------------------------------------------------------
\* compute_dcf
\* ------------------------------------------------------------------------

\* Faulty variant: the floor of line 274 is missing.
ScenarioWacc_nofloor(base_wacc, wacc_adj) == base_wacc + wacc_adj

\* wacc = max(wacc_data["wacc"] + scenario.wacc_adj, 0.04)
ScenarioWacc(base_wacc, wacc_adj) == Max(base_wacc + wacc_adj, Dec(4, 100))

\* Faulty variant: the cap of line 277 is missing.
ScenarioTerminalGrowth_nocap(terminal_growth, terminal_growth_adj, wacc) ==
    Max(terminal_growth + terminal_growth_adj, Dec(5, 1000))

\* Faulty variant: the floor of line 278 is missing.
ScenarioTerminalGrowth_nofloor(terminal_growth, terminal_growth_adj, wacc) ==
    Min(terminal_growth + terminal_growth_adj, wacc - Dec(1, 100))

\* tg = max(min(terminal_growth + adj, wacc - 0.01), 0.005)
ScenarioTerminalGrowth(terminal_growth, terminal_growth_adj, wacc) ==
    Max(Min(terminal_growth + terminal_growth_adj, wacc - Dec(1, 100)), Dec(5, 1000))

\* Faulty variant: the exponent is the 0-based index i of the loop, not
\* i + 1, so the first cash flow is not discounted.
PresentValues_undiscounted_first(fcfs, wacc) ==
    [i \in 1..Len(fcfs) |-> FDiv(fcfs[i], FPow(One + wacc, i - 1))]

\* [fcf / (1 + wacc) ** (i + 1) for i, fcf in enumerate(fcfs)]
PresentValues(fcfs, wacc) ==
    [i \in 1..Len(fcfs) |-> FDiv(fcfs[i], FPow(One + wacc, i))]

\* The divisors of compute_dcf, in the order the code divides.
compute_dcf_divisors(projection, wacc_data, scenario, stock, terminal_growth) ==
    LET wacc == ScenarioWacc(wacc_data.wacc, scenario.wacc_adj)
        tg == ScenarioTerminalGrowth(terminal_growth, scenario.terminal_growth_adj, wacc)
        n == Len(projection.projected_fcf)
    IN  {FPow(One + wacc, i) : i \in 1..n} \cup {wacc - tg}
        \cup (IF stock.shares_outstanding > 0 THEN {stock.shares_outstanding} ELSE {})
        \cup (IF stock.current_price > 0 THEN {stock.current_price} ELSE {})

\* enterprise_value = pv_fcf_total + pv_terminal
EnterpriseValue(pv_fcf_total, pv_terminal) == pv_fcf_total + pv_terminal

\* Faulty variant: cash is not netted against debt.
NetDebt_gross(financials) == financials.total_debt[1]

\* net_debt = financials["total_debt"][0] - financials["cash"][0]
NetDebt(financials) == financials.total_debt[1] - financials.cash[1]

\* Faulty variant: the test is on a nonzero share count, a negative one divides.
ImpliedSharePrice_nonzero(equity_value, shares) ==
    IF shares # 0 THEN FDiv(equity_value, shares) ELSE 0

\* value_per_share = equity_value / shares if shares > 0 else 0
ImpliedSharePrice(equity_value, shares) ==
    IF shares > 0 THEN FDiv(equity_value, shares) ELSE 0

\* upside = (value_per_share - current_price) / current_price if current_price > 0 else 0
UpsideDownside(value_per_share, current_price) ==
    IF current_price > 0 THEN FDiv(value_per_share - current_price, current_price) ELSE 0

compute_dcf(projection, wacc_data, scenario, stock, financials, terminal_growth) ==
    LET wacc == ScenarioWacc(wacc_data.wacc, scenario.wacc_adj)
        tg == ScenarioTerminalGrowth(terminal_growth, scenario.terminal_growth_adj, wacc)
        fcfs == projection.projected_fcf
        n == Len(fcfs)
        pv_fcfs == PresentValues(fcfs, wacc)
        pv_fcf_total == Sum(pv_fcfs)
        terminal_fcf == FMul(Last(fcfs), One + tg)
        terminal_value == FDiv(terminal_fcf, wacc - tg)
        pv_terminal == FDiv(terminal_value, FPow(One + wacc, n))
        enterprise_value == EnterpriseValue(pv_fcf_total, pv_terminal)
        net_debt == NetDebt(financials)
        equity_value == enterprise_value - net_debt
        shares == stock.shares_outstanding
        value_per_share == ImpliedSharePrice(equity_value, shares)
        current_price == stock.current_price
        upside == UpsideDownside(value_per_share, current_price)
    IN  [scenario |-> scenario.name, wacc |-> wacc, terminal_growth |-> tg,
         pv_fcfs |-> pv_fcfs, pv_fcf_total |-> pv_fcf_total,
         terminal_value |-> terminal_value, pv_terminal_value |-> pv_terminal,
         enterprise_value |-> enterprise_value, net_debt |-> net_debt,
         equity_value |-> equity_value, shares_outstanding |-> shares,
         implied_share_price |-> value_per_share, current_price |-> current_price,
         upside_downside |-> upside]

\* ------------------------------------------------------------------------
\* build_sensitivity (excel_builder.py): the two grids of the sheet
\* ------------------------------------------------------------------------

\* A cell of a grid: the marker "N/A", or a price.
NACell == [marker |-> "N/A", value |-> 0]

NumberCell(price) == [marker |-> "", value |-> price]

TG_DELTAS == << -Dec(15, 1000), -Dec(1, 100), -Dec(5, 1000), 0, Dec(5, 1000), Dec(1, 100), Dec(15, 1000) >>

WACC_DELTAS == << -Dec(3, 100), -Dec(2, 100), -Dec(1, 100), 0, Dec(1, 100), Dec(2, 100), Dec(3, 100) >>

GROWTH_DELTAS == << -Dec(4, 100), -Dec(2, 100), 0, Dec(2, 100), Dec(4, 100), Dec(6, 100) >>

MARGIN_DELTAS == << -Dec(4, 100), -Dec(2, 100), 0, Dec(2, 100), Dec(4, 100) >>

\* tg_range: base_tg + delta, each floored at 0.005.
tg_range(base_tg) == [j \in 1..Len(TG_DELTAS) |-> Max(base_tg + TG_DELTAS[j], Dec(5, 1000))]

\* wacc_range: base_wacc + delta, each floored at 0.04.
wacc_range(base_wacc) == [i \in 1..Len(WACC_DELTAS) |-> Max(base_wacc + WACC_DELTAS[i], Dec(4, 100))]

\* Faulty variant: the test is strict, a cell with wacc = tg divides by zero.
CellIsNA_strict(wacc, tg) == wacc < tg

\* The test that makes a cell of the first grid the marker: if wacc <= tg.
CellIsNA(wacc, tg) == wacc <= tg

\* Faulty variant: the terminal value is added without being discounted.
WaccTgPrice_undiscounted_terminal(proj_fcfs, wacc, tg, n_proj, net_debt, shares) ==
    LET new_pv_fcfs == Sum(PresentValues(proj_fcfs, wacc))
        term_val == FDiv(FMul(Last(proj_fcfs), One + tg), wacc - tg)
        eq_val == new_pv_fcfs + term_val - net_debt
    IN  IF shares > 0 THEN FDiv(eq_val, shares) ELSE 0

\* The price of the else branch of a cell of the first grid.
WaccTgPrice(proj_fcfs, wacc, tg, n_proj, net_debt, shares) ==
    LET new_pv_fcfs == Sum(PresentValues(proj_fcfs, wacc))
        term_fcf == FMul(Last(proj_fcfs), One + tg)
        term_val == FDiv(term_fcf, wacc - tg)
        pv_term == FDiv(term_val, FPow(One + wacc, n_proj))
        ev == new_pv_fcfs + pv_term
        eq_val == ev - net_debt
    IN  IF shares > 0 THEN FDiv(eq_val, shares) ELSE 0

\* The divisors a cell of the first grid divides by: none for a marker cell.
WaccTgCellDivisors(proj_fcfs, wacc, tg, n_proj, shares) ==
    IF CellIsNA(wacc, tg) THEN {}
    ELSE {FPow(One + wacc, k) : k \in 1..Len(proj_fcfs)} \cup {wacc - tg, FPow(One + wacc, n_proj)}
         \cup (IF shares > 0 THEN {shares} ELSE {})

\* A cell of the first grid: the marker, or the price; a division by zero
\* in the else branch raises ZeroDivisionError.
WaccTgCell(proj_fcfs, wacc, tg, n_proj, net_debt, shares) ==
    IF CellIsNA(wacc, tg) THEN NACell
    ELSE IF 0 \in WaccTgCellDivisors(proj_fcfs, wacc, tg, n_proj, shares)
         THEN [marker |-> "ZeroDivisionError", value |-> 0]
         ELSE NumberCell(WaccTgPrice(proj_fcfs, wacc, tg, n_proj, net_debt, shares))

\* The first grid: rows wacc_range, columns tg_range.
WaccTgGrid(model_result, stock) ==
    LET base_wacc == model_result.wacc_data.wacc
        base_tg == model_result.terminal_growth
        base == model_result.scenarios["base"]
        rows == wacc_range(base_wacc)
        cols == tg_range(base_tg)
    IN  [i \in 1..Len(rows) |-> [j \in 1..Len(cols) |->
            WaccTgCell(base.projection.projected_fcf, rows[i], cols[j],
                       model_result.projection_years, base.dcf.net_debt,
                       stock.shares_outstanding)]]

\* The projected FCF path of a cell of the second grid.
GrowthMarginFcfs(base_rev, gr, mg, tax_rate, da_pct, capex_pct, n_proj) ==
    [yr \in 1..n_proj |->
        LET fade == One - FDiv(Fix(yr - 1), Fix(n_proj * 2))
            g == FMul(gr, fade)
            rev == FMul(base_rev, FPow(One + g, yr))
            ebit == FMul(rev, Max(mg, Dec(1, 100)))
            nopat == FMul(ebit, One - tax_rate)
        IN  nopat + FMul(rev, da_pct) - FMul(rev, capex_pct)]

\* The divisors of a cell of the second grid, w = base_wacc unfloored.
GrowthMarginDivisors(w, base_tg, n_proj, shares) ==
    {FPow(One + w, k) : k \in 1..n_proj}
    \cup (IF w > base_tg THEN {w - base_tg} ELSE {})
    \cup (IF shares > 0 THEN {shares} ELSE {})

\* The price of a cell of the second grid.
GrowthMarginPrice(proj_fcfs, w, base_tg, n_proj, net_debt, shares) ==
    LET new_pv == Sum(PresentValues(proj_fcfs, w))
        tf == FMul(Last(proj_fcfs), One + base_tg)
        tv == IF w > base_tg THEN FDiv(tf, w - base_tg) ELSE 0
        pvt == FDiv(tv, FPow(One + w, n_proj))
        ev == new_pv + pvt
        eq == ev - net_debt
    IN  IF shares > 0 THEN FDiv(eq, shares) ELSE 0

\* The second grid: rows growth_range, columns margin_range.
GrowthMarginGrid(model_result, stock, financials) ==
    LET m == model_result.metrics
        base == model_result.scenarios["base"]
    IN  [i \in 1..Len(GROWTH_DELTAS) |-> [j \in 1..Len(MARGIN_DELTAS) |->
            NumberCell(GrowthMarginPrice(
                GrowthMarginFcfs(financials.revenue[1],
                                 m.avg_revenue_growth + GROWTH_DELTAS[i],
                                 m.avg_operating_margin + MARGIN_DELTAS[j],
                                 base.projection.tax_rate, m.avg_da_pct, m.avg_capex_pct,
                                 model_result.projection_years),
                model_result.wacc_data.wacc, model_result.terminal_growth,
                model_result.projection_years, base.dcf.net_debt,
                stock.shares_outstanding))]]

\* "ZeroDivisionError" when a cell of the sheet divides by zero, "" when
\* build_sensitivity fills both grids.  The first grid is written cell by
\* cell before the second is computed.
build_sensitivity_raises(model_result, stock) ==
    LET g1 == WaccTgGrid(model_result, stock)
    IN  IF \/ \E i \in 1..Len(g1) : \E j \in 1..Len(g1[i]) : g1[i][j].marker = "ZeroDivisionError"
           \/ 0 \in GrowthMarginDivisors(model_result.wacc_data.wacc, model_result.terminal_growth,
                                         model_result.projection_years, stock.shares_outstanding)
        THEN "ZeroDivisionError" ELSE ""

build_sensitivity(model_result, stock, financials) ==
    [wacc_tg |-> WaccTgGrid(model_result, stock),
     growth_margin |-> GrowthMarginGrid(model_result, stock, financials)]

\* ------------------------------------------------------------------------
\* fetch_all (data_fetcher.py)
\* ------------------------------------------------------------------------

\* A text is a sequence of pieces; a ticker is a sequence of characters.
Chars == {"a", "p", "l", "m", "s", "f", "t", "A", "P", "L", "M", "S", "F", "T", " "}

\* str.upper() on one character.
UpperChar(c) ==
    CASE c = "a" -> "A" [] c = "p" -> "P" [] c = "l" -> "L" [] c = "m" -> "M"
      [] c = "s" -> "S" [] c = "f" -> "F" [] c = "t" -> "T" [] OTHER -> c

\* str.upper()
Upper(t) == [i \in 1..Len(t) |-> UpperChar(t[i])]

\* str.strip(): leading and trailing blanks are removed, inner ones stay.
RECURSIVE Strip(_)
Strip(t) ==
    IF Len(t) = 0 THEN t
    ELSE IF t[1] = " " THEN Strip(Tail(t))
    ELSE IF t[Len(t)] = " " THEN Strip(SubSeq(t, 1, Len(t) - 1))
    ELSE t

\* ticker = ticker.upper().strip()
NormalTicker(ticker) == Strip(Upper(ticker))

\* The fields of the three records that identify them; the numeric fields
\* are carried along with them and neither read nor written by fetch_all.
StockRecord(ticker, company_name, sector) ==
    [ticker |-> ticker, company_name |-> company_name, sector |-> sector]

\* SAMPLE_DATA as built at import: one entry, AAPL.
SAMPLE_DATA_IMPORT ==
    (<<"A", "A", "P", "L">> :>
        [stock |-> StockRecord(<<"A", "A", "P", "L">>, <<"Apple Inc.">>, "Technology"),
         financials |-> [years |-> <<"2024", "2023", "2022", "2021">>, owner |-> "AAPL"],
         rates |-> [date_fetched |-> "2025-01-15 10:00", owner |-> "AAPL"]])

\* GENERIC_SAMPLE as built at import.
GENERIC_SAMPLE_IMPORT ==
    [stock |-> StockRecord(<<"S", "A", "M", "P", "L", "E">>, <<"Sample Corp">>, "Technology"),
     financials |-> [years |-> <<"2024", "2023", "2022", "2021">>, owner |-> "SAMPLE"],
     rates |-> [date_fetched |-> "2025-01-15 10:00", owner |-> "SAMPLE"]]

\* The stock dict built for a ticker without sample data:
\* {**GENERIC_SAMPLE["stock"], "ticker": ticker, "company_name": f"{ticker} (Sample)"}
GenericStock(generic, ticker) ==
    [generic.stock EXCEPT !.ticker = ticker, !.company_name = ticker \o <<" (Sample)">>]

\* The steps of the live fetch, in the order of the try block, and "" for
\* a fetch none of whose steps raises.
LiveSteps == << "fetch_stock_data_live", "fetch_financials_live", "fetch_rates_live" >>

LiveOutcomes == { LiveSteps[i] : i \in 1..Len(LiveSteps) } \cup {""}

\* What the three live fetchers return for a ticker the provider knows
\* nothing about: the defaults of the info.get calls.
LiveData(ticker) ==
    [stock |-> StockRecord(Upper(ticker), Upper(ticker), "N/A"),
     financials |-> [years |-> <<"2024", "2023", "2022", "2021">>, owner |-> "live"],
     rates |-> [date_fetched |-> "now", owner |-> "live"]]

\* The try block is entered, and left by its return statement.
LiveReturns(force_sample, has_yfinance, raises) ==
    (~force_sample) /\ has_yfinance /\ raises = ""

\* The dict fetch_all returns.  ticker is the normalized ticker; raises is
\* the live step that raises an Exception, caught by the except clause.
fetch_all(ticker, force_sample, has_yfinance, raises, sample_data, generic) ==
    IF LiveReturns(force_sample, has_yfinance, raises)
    THEN [stock |-> LiveData(ticker).stock, financials |-> LiveData(ticker).financials,
          rates |-> LiveData(ticker).rates, source |-> "live"]
    ELSE LET data == IF ticker \in DOMAIN sample_data
                     THEN sample_data[ticker]
                     ELSE [generic EXCEPT !.stock = GenericStock(generic, ticker)]
         IN  [stock |-> data.stock, financials |-> data.financials,
              rates |-> data.rates, source |-> "sample"]

\* Faulty variant: data = GENERIC_SAMPLE without .copy(), the assignment to
\* data["stock"] writes into the module's dict.
GenericAfterFetch_aliased(generic, ticker, sample_path, sample_data) ==
    IF sample_path /\ ticker \notin DOMAIN sample_data
    THEN [generic EXCEPT !.stock = GenericStock(generic, ticker)]
    ELSE generic

\* GENERIC_SAMPLE after a call: data is a copy of the outer dict, so the
\* assignment to data["stock"] leaves the module's dict as it was.
GenericAfterFetch(generic, ticker, sample_path, sample_data) == generic

\* The tickers fetch_all is called with.
Tickers ==
    { <<"A", "A", "P", "L">>, <<"a", "a", "p", "l">>, <<" ", "a", "A", "p", "L", " ">>,
      <<"A", "A", " ", "P", "L">>, <<"m", "s", "f", "t">>, <<"M", "S", "F", "T">>,
      <<"M", "S", "F", "T", " ">>, <<"t">>, <<" ">>, << >> }

\* ------------------------------------------------------------------------
\* Inputs of a run
\* ------------------------------------------------------------------------

\* A MarketSnapshot record.
Stock(beta, market_cap, current_price, shares_outstanding) ==
    [beta |-> beta, market_cap |-> market_cap, current_price |-> current_price,
     shares_outstanding |-> shares_outstanding]

\* A MarketSnapshot and a RateEnvironment: an ordinary pair; a risk-free
\* rate below zero; beta 2 with a risk-free rate of -1.11 (cost of equity
\* -1); a snapshot whose beta, market cap, price and share count are all 0.
Markets ==
    { [stock |-> Stock(Fix(1), Fix(100), Fix(10), Fix(10)), rates |-> [risk_free_rate |-> Dec(4, 100)]],
      [stock |-> Stock(Fix(1), Fix(100), Fix(10), Fix(10)), rates |-> [risk_free_rate |-> -Dec(1, 100)]],
      [stock |-> Stock(Fix(2), Fix(100), Fix(10), Fix(10)), rates |-> [risk_free_rate |-> -Dec(111, 100)]],
      [stock |-> Stock(0, 0, 0, 0), rates |-> [risk_free_rate |-> Dec(4, 100)]] }

\* A series of k periods, most recent first: first, first - step, ...
Series(k, first, step) == [i \in 1..k |-> Fix(first - step * (i - 1))]

\* A FinancialStatementSeries of K periods whose operating_income has Koi
\* periods (misaligned when Koi # K), with the given latest revenue and debt.
Financials(K, Koi, rev0, debt) ==
    [revenue |-> [i \in 1..K |-> IF i = 1 THEN Fix(rev0) ELSE Fix(10 - 2 * (i - 1))],
     operating_income |-> Series(Koi, 2, 1),
     net_income |-> Series(K, 3, 1),
     free_cash_flow |-> Series(K, 2, 1),
     capex |-> [i \in 1..K |-> -Fix(1)],
     depreciation |-> Series(K, 1, 0),
     tax_provision |-> Series(K, 1, 0),
     interest_expense |-> [i \in 1..K |-> IF debt = 0 THEN 0 ELSE -Fix(2)],
     total_debt |-> Series(K, debt, 0),
     cash |-> Series(K, 20, 5)]

\* Latest revenue and latest debt of the statements tried.
Books == { <<10, 0>>, <<10, 50>>, <<0, 50>> }

FinancialsSet ==
    { Financials(K, Koi, b[1], b[2]) :
        K \in 1..MaxK, Koi \in 0..(MaxK + 1), b \in Books }

\* Every series has the length of revenue.
Aligned(financials) ==
    \A f \in DOMAIN financials : Len(financials[f]) = Len(financials.revenue)

\* The configured terminal growth: the default, and one above the WACC floor.
TerminalGrowths == { Dec(25, 1000), Dec(6, 100) }

\* The default equity risk premium.
ERP == Dec(55, 1000)

\* The arguments of a call of run_all_scenarios.
Inputs ==
    { [stock |-> m.stock, financials |-> f, rates |-> m.rates, projection_years |-> n,
       terminal_growth |-> t, equity_risk_premium |-> ERP] :
        m \in Markets, f \in { g \in FinancialsSet : Len(g.operating_income) - Len(g.revenue) \in {-1, 0, 1} },
        n \in 1..MaxYears, t \in TerminalGrowths }

\* Entries a caller may add to the registry.
EXTRA_SCENARIOS ==
    { Scenario("stress", "Stress Case", -Dec(20, 100), -Dec(30, 100), -Dec(5, 10), Dec(35, 1000)) }

Keys(registry) == { registry[i].key : i \in 1..Len(registry) }

None == [none |-> TRUE]

\* No exception, and the exception of type t raised in function f.
NoError == [type |-> "", where |-> ""]

Raised(t, f) == [type |-> t, where |-> f]

\* The calls run_all_scenarios can make: a calculator and, for the two
\* per-scenario calculators, the key it is called for.
CallNames(registry) ==
    { <<"compute_wacc", "">>, <<"compute_historical_metrics", "">> }
    \cup ({"project_fcf", "compute_dcf"} \X Keys(registry))

NoCalls(registry) == [c \in CallNames(registry) |-> 0]

\* ------------------------------------------------------------------------
\* State
\* ------------------------------------------------------------------------

VARIABLES
    SCENARIOS,      \* the registry: scenario records in insertion order
    pc,             \* where the caller is: idle, wacc, metrics, loop, dcf,
                    \* returned, built, raised
    args,           \* the arguments of the current call of run_all_scenarios
    wacc_data,      \* run_all_scenarios: local wacc_data
    metrics,        \* run_all_scenarios: local metrics
    pending,        \* run_all_scenarios: the registry items the loop has not reached
    scenario,       \* run_all_scenarios: the loop variable
    projection,     \* run_all_scenarios: local projection
    results,        \* run_all_scenarios: local results, key -> entry
    model_result,   \* the value run_all_scenarios returned
    sheet,          \* the two grids build_sensitivity wrote
    error,          \* the exception that ended the run and the function that raised it
    calls,          \* history: how often each calculator was called in this run
    runs,           \* history: runs started (SpecPar)
    first,          \* history: arguments, registry and result of the first run returned
    other,          \* history: a later run had other arguments than the first
    HAS_YFINANCE,   \* data_fetcher: the import of yfinance succeeded
    SAMPLE_DATA,    \* data_fetcher: the module's dict of that name
    GENERIC_SAMPLE, \* data_fetcher: the module's dict of that name
    request,        \* the arguments and live outcome of the last call of fetch_all
    fetched         \* the value the last call of fetch_all returned

vars == << SCENARIOS, pc, args, wacc_data, metrics, pending, scenario, projection,
           results, model_result, sheet, error, calls, runs, first, other,
           HAS_YFINANCE, SAMPLE_DATA, GENERIC_SAMPLE, request, fetched >>

locals == << wacc_data, metrics, pending, scenario, projection, results >>

history == << runs, first, other >>

fetcher == << HAS_YFINANCE, SAMPLE_DATA, GENERIC_SAMPLE, request, fetched >>

engine == << SCENARIOS, pc, args, locals, model_result, sheet, error, calls, history >>

Init ==
    /\ SCENARIOS = BUILTIN_SCENARIOS
    /\ pc = "idle"
    /\ args = None
    /\ wacc_data = None
    /\ metrics = None
    /\ pending = << >>
    /\ scenario = None
    /\ projection = None
    /\ results = << >>
    /\ model_result = None
    /\ sheet = None
    /\ error = NoError
    /\ calls = NoCalls(BUILTIN_SCENARIOS)
    /\ runs = 0
    /\ first = None
    /\ other = FALSE
    /\ HAS_YFINANCE \in BOOLEAN
    /\ SAMPLE_DATA = SAMPLE_DATA_IMPORT
    /\ GENERIC_SAMPLE = GENERIC_SAMPLE_IMPORT
    /\ request = None
    /\ fetched = None

\* ------------------------------------------------------------------------
\* Actions
\* ------------------------------------------------------------------------

\* A caller adds an entry to the registry between runs.
Register ==
    /\ pc = "idle"
    /\ \E sc \in EXTRA_SCENARIOS :
          /\ sc.key \notin Keys(SCENARIOS)
          /\ SCENARIOS' = Append(SCENARIOS, sc)
          /\ calls' = NoCalls(SCENARIOS')
    /\ UNCHANGED << pc, args, locals, model_result, sheet, error, history >>
    /\ UNCHANGED fetcher

\* run_all_scenarios is called with the arguments in.
CallWith(in) ==
    /\ pc = "idle"
    /\ args' = in
    /\ pc' = "wacc"
    /\ wacc_data' = None
    /\ metrics' = None
    /\ pending' = << >>
    /\ scenario' = None
    /\ projection' = None
    /\ results' = << >>
    /\ model_result' = None
    /\ sheet' = None
    /\ error' = NoError
    /\ calls' = NoCalls(SCENARIOS)
    /\ UNCHANGED << SCENARIOS, first, other >>
    /\ UNCHANGED fetcher

Call == (\E in \in Inputs : CallWith(in)) /\ UNCHANGED runs

\* wacc_data = compute_wacc(stock, financials, rates, equity_risk_premium)
ComputeWacc ==
    /\ pc = "wacc"
    /\ wacc_data' = compute_wacc(args.stock, args.financials, args.rates, args.equity_risk_premium)
    /\ calls' = [calls EXCEPT ![<<"compute_wacc", "">>] = @ + 1]
    /\ pc' = "metrics"
    /\ UNCHANGED << SCENARIOS, args, metrics, pending, scenario, projection, results,
                    model_result, sheet, error, history >>
    /\ UNCHANGED fetcher

\* Faulty variant: the loop visits the five built-in keys only.
LoopItems_builtin(registry) == SubSeq(registry, 1, Len(BUILTIN_SCENARIOS))

\* The items the for loop of run_all_scenarios visits: SCENARIOS.items().
LoopItems(registry) == registry

\* metrics = compute_historical_metrics(financials); results = {}; the
\* loop's iterator is created.
ComputeMetrics ==
    /\ pc = "metrics"
    /\ calls' = [calls EXCEPT ![<<"compute_historical_metrics", "">>] = @ + 1]
    /\ IF compute_historical_metrics_raises(args.financials) # ""
       THEN /\ error' = Raised(compute_historical_metrics_raises(args.financials),
                              "compute_historical_metrics")
            /\ pc' = "raised"
            /\ UNCHANGED << metrics, pending, results >>
       ELSE /\ metrics' = compute_historical_metrics(args.financials)
            /\ results' = << >>
            /\ pending' = LoopItems(SCENARIOS)
            /\ pc' = "loop"
            /\ error' = error
    /\ UNCHANGED << SCENARIOS, args, wacc_data, scenario, projection, model_result,
                    sheet, history >>
    /\ UNCHANGED fetcher

\* Faulty variant: project_fcf stores the adjusted rates back into the metrics
\* dict it was given.
metrics_after_adjusted(m, sc) ==
    [m EXCEPT !.avg_revenue_growth = Max(@ + sc.revenue_growth_adj, -Dec(15, 100)),
              !.avg_operating_margin = Max(@ + sc.margin_adj, Dec(1, 100))]

\* The metrics dict after project_fcf has used it: base_growth and the
\* other bases are locals read from it, nothing is assigned into it.
metrics_after(m, sc) == m

\* The loop takes the item at position i of those left and calls project_fcf.
ProjectAt(i) ==
    /\ pc = "loop"
    /\ i \in 1..Len(pending)
    /\ scenario' = pending[i]
    /\ pending' = SubSeq(pending, 1, i - 1) \o SubSeq(pending, i + 1, Len(pending))
    /\ projection' = project_fcf(args.financials, metrics, pending[i], args.projection_years)
    /\ metrics' = metrics_after(metrics, pending[i])
    /\ calls' = [calls EXCEPT ![<<"project_fcf", pending[i].key>>] = @ + 1]
    /\ pc' = "dcf"
    /\ UNCHANGED << SCENARIOS, args, wacc_data, results, model_result, sheet,
                    error, history >>
    /\ UNCHANGED fetcher

\* for key, scenario in SCENARIOS.items(): the next item, in insertion order.
Project == ProjectAt(1)

\* The scenarios evaluated in any order (spec.md, section 5).
ProjectAny == \E i \in 1..Len(pending) : ProjectAt(i)

\* Faulty variant: compute_dcf writes the adjustment it applied back into the
\* Scenario object of the registry.
scenario_after_drift(sc) ==
    [sc EXCEPT !.wacc_adj = @ + Dec(1, 100), !.revenue_growth_adj = @ + Dec(1, 100)]

\* A Scenario object after project_fcf and compute_dcf have used it: both
\* read its fields and assign none.
scenario_after(sc) == sc

\* Faulty variant: compute_dcf adjusts wacc_data["wacc"] in place.
wacc_data_after_inplace(wd, sc) == [wd EXCEPT !.wacc = @ + sc.wacc_adj]

\* wacc_data after compute_dcf has used it: wacc is a local of compute_dcf.
wacc_data_after(wd, sc) == wd

\* results[key] = {"scenario": ..., "projection": ..., "dcf": ...}
StoreResult(res, sc, proj, dcf) ==
    (sc.key :> [scenario |-> sc, projection |-> proj, dcf |-> dcf]) @@ res

\* dcf = compute_dcf(...); results[key] = {...}
ComputeDcf ==
    /\ pc = "dcf"
    /\ calls' = [calls EXCEPT ![<<"compute_dcf", scenario.key>>] = @ + 1]
    /\ IF 0 \in compute_dcf_divisors(projection, wacc_data, scenario, args.stock, args.terminal_growth)
       THEN /\ error' = Raised("ZeroDivisionError", "compute_dcf")
            /\ pc' = "raised"
            /\ UNCHANGED << SCENARIOS, wacc_data, results >>
       ELSE /\ results' = StoreResult(results, scenario, projection,
                              compute_dcf(projection, wacc_data, scenario, args.stock,
                                          args.financials, args.terminal_growth))
            /\ wacc_data' = wacc_data_after(wacc_data, scenario)
            /\ SCENARIOS' = [i \in 1..Len(SCENARIOS) |->
                               IF SCENARIOS[i].key = scenario.key
                               THEN scenario_after(SCENARIOS[i]) ELSE SCENARIOS[i]]
            /\ pc' = "loop"
            /\ error' = error
    /\ UNCHANGED << args, metrics, pending, scenario, projection, model_result, sheet, history >>
    /\ UNCHANGED fetcher

\* The dict run_all_scenarios returns.
ModelResult ==
    [wacc_data |-> wacc_data, metrics |-> metrics, scenarios |-> results,
     projection_years |-> args.projection_years, terminal_growth |-> args.terminal_growth]

\* The loop is over: return {...}.
Return ==
    /\ pc = "loop"
    /\ pending = << >>
    /\ model_result' = ModelResult
    /\ pc' = "returned"
    /\ UNCHANGED << SCENARIOS, args, locals, sheet, error, calls, history >>
    /\ UNCHANGED fetcher

\* build_workbook calls build_sensitivity(wb, model_result, stock, financials).
BuildSensitivity ==
    /\ pc = "returned"
    /\ IF build_sensitivity_raises(model_result, args.stock) # ""
       THEN /\ error' = Raised(build_sensitivity_raises(model_result, args.stock),
                              "build_sensitivity")
            /\ pc' = "raised"
            /\ sheet' = [wacc_tg |-> WaccTgGrid(model_result, args.stock),
                         growth_margin |-> None]
       ELSE /\ sheet' = build_sensitivity(model_result, args.stock, args.financials)
            /\ pc' = "built"
            /\ error' = error
    /\ UNCHANGED << SCENARIOS, args, locals, model_result, calls, history >>
    /\ UNCHANGED fetcher

\* The caller is done with the run (or with its exception).
Finish ==
    /\ pc \in {"returned", "built", "raised"}
    /\ pc' = "idle"
    /\ args' = None
    /\ wacc_data' = None
    /\ metrics' = None
    /\ pending' = << >>
    /\ scenario' = None
    /\ projection' = None
    /\ results' = << >>
    /\ model_result' = None
    /\ sheet' = None
    /\ error' = NoError
    /\ calls' = NoCalls(SCENARIOS)
    /\ UNCHANGED << SCENARIOS, history >>
    /\ UNCHANGED fetcher

\* main calls fetch_all(ticker, fred_api_key, force_sample); the live
\* fetch, when tried, returns or raises in one of its steps.
FetchAll ==
    /\ pc = "idle"
    /\ \E ticker \in Tickers, force_sample \in BOOLEAN, raises \in LiveOutcomes :
          LET t == NormalTicker(ticker)
              sample_path == ~LiveReturns(force_sample, HAS_YFINANCE, raises)
          IN  /\ request' = [ticker |-> ticker, force_sample |-> force_sample, raises |-> raises]
              /\ fetched' = fetch_all(t, force_sample, HAS_YFINANCE, raises, SAMPLE_DATA,
                                      GENERIC_SAMPLE)
              /\ GENERIC_SAMPLE' = GenericAfterFetch(GENERIC_SAMPLE, t, sample_path, SAMPLE_DATA)
    /\ UNCHANGED << HAS_YFINANCE, SAMPLE_DATA >>
    /\ UNCHANGED engine

NextFetch == FetchAll

SpecFetch == Init /\ [][NextFetch]_vars

\* ------------------------------------------------------------------------
\* Repeated runs, scenarios evaluated in any order
\* ------------------------------------------------------------------------

\* The arguments tried by the repeated runs: aligned single-period
\* statements of an ordinary company, the default terminal growth, every
\* horizon.
FewInputs ==
    { in \in Inputs :
        /\ Aligned(in.financials)
        /\ Len(in.financials.revenue) = 1
        /\ in.financials.revenue[1] # 0
        /\ in.financials.total_debt[1] # 0
        /\ in.stock.beta = Fix(1)
        /\ in.rates.risk_free_rate = Dec(4, 100)
        /\ in.terminal_growth = Dec(25, 1000) }

CallBounded ==
    /\ runs < MaxRuns
    /\ \E in \in FewInputs : CallWith(in)
    /\ runs' = runs + 1

\* Return, and the history of what the first run was given and returned.
ReturnObserved ==
    /\ pc = "loop"
    /\ pending = << >>
    /\ model_result' = ModelResult
    /\ pc' = "returned"
    /\ first' = IF first = None
                THEN [args |-> args, keys |-> Keys(SCENARIOS), result |-> ModelResult]
                ELSE first
    /\ other' = (other \/ (first # None /\ (args # first.args \/ Keys(SCENARIOS) # first.keys)))
    /\ UNCHANGED << SCENARIOS, args, locals, sheet, error, calls, runs >>
    /\ UNCHANGED fetcher

NextPar ==
    \/ CallBounded
    \/ ComputeWacc
    \/ ComputeMetrics
    \/ ProjectAny
    \/ ComputeDcf
    \/ ReturnObserved
    \/ Finish

SpecPar == Init /\ [][NextPar]_vars

\* ------------------------------------------------------------------------
\* Runs on statements and snapshots with zero, negative and missing entries
\* ------------------------------------------------------------------------

\* Statements with the given revenue series and latest net income, tax
\* provision, debt and interest expense.
CalcFinancials(rev, ni0, tp0, debt0, int0) ==
    [revenue |-> rev,
     operating_income |-> [i \in 1..Len(rev) |-> Fix(2)],
     net_income |-> [i \in 1..Len(rev) |-> IF i = 1 THEN ni0 ELSE Fix(3)],
     free_cash_flow |-> Series(Len(rev), 2, 1),
     capex |-> [i \in 1..Len(rev) |-> -Fix(1)],
     depreciation |-> [i \in 1..Len(rev) |-> Fix(1)],
     tax_provision |-> [i \in 1..Len(rev) |-> IF i = 1 THEN tp0 ELSE Fix(1)],
     interest_expense |-> [i \in 1..Len(rev) |-> IF i = 1 THEN int0 ELSE -Fix(2)],
     total_debt |-> [i \in 1..Len(rev) |-> IF i = 1 THEN debt0 ELSE Fix(50)],
     cash |-> Series(Len(rev), 20, 5)]

\* Revenue series of 1..MaxK periods: the latest revenue 10 or 0, the one
\* before it larger, smaller, negative or 0; two series that grow by 0.6%
\* and by 0.4% a year; a negative latest revenue.
Revenues ==
    { [i \in 1..K |-> IF i = 1 THEN Fix(r0) ELSE IF i = 2 THEN Fix(r1) ELSE Fix(6)] :
        K \in 1..MaxK, r0 \in {10, 0}, r1 \in {8, 12, -8, 0} }
    \cup { << Fix(167), Fix(166) >>, << Fix(251), Fix(250) >>, << -Fix(10), Fix(8) >> }

\* Snapshots: ordinary; no shares; a negative share count; no price; no
\* market cap; nothing known.
CalcStocks ==
    { Stock(Fix(1), Fix(100), Fix(10), Fix(10)), Stock(Fix(1), Fix(100), Fix(10), 0),
      Stock(Fix(1), Fix(100), Fix(10), -Fix(10)), Stock(Fix(1), Fix(100), 0, Fix(10)),
      Stock(Fix(1), 0, Fix(10), Fix(10)), Stock(0, 0, 0, 0) }

\* Latest net income and tax provision: ordinary; a loss; no tax; no
\* income with and without tax; both below 1 in sum.
TaxCases ==
    { <<Fix(3), Fix(1)>>, <<-Fix(3), Fix(1)>>, <<Fix(3), 0>>, <<0, Fix(1)>>, <<0, Fix(5)>>,
      <<0, 0>>, <<Dec(3, 10), Dec(2, 10)>>, <<Fix(3), -Fix(1)>> }

\* Latest debt: none, positive, negative (less than, equal to and more than
\* the equity value of 100).
Debts == { 0, Fix(50), -Fix(50), -Fix(100), -Fix(200) }

Interests == { 0, -Fix(2), Fix(2) }

RiskFreeRates == { Dec(4, 100), -Dec(1, 100) }

\* Configured terminal growth: none, the default, one above the WACC floor.
CalcTerminalGrowths == { 0, Dec(25, 1000), Dec(6, 100) }

CalcArgs(stock, financials, rf, n, t) ==
    [stock |-> stock, financials |-> financials, rates |-> [risk_free_rate |-> rf],
     projection_years |-> n, terminal_growth |-> t, equity_risk_premium |-> ERP]

\* The ordinary statements: two periods, income 3, tax 1, debt 50, interest 2.
OrdinaryFinancials == CalcFinancials(<<Fix(10), Fix(8)>>, Fix(3), Fix(1), Fix(50), -Fix(2))

OrdinaryStock == Stock(Fix(1), Fix(100), Fix(10), Fix(10))

\* The arguments tried: each family varies some of the inputs of an
\* ordinary run.
CalcInputs ==
    { CalcArgs(st, OrdinaryFinancials, rf, n, t) :
        st \in CalcStocks, rf \in RiskFreeRates, n \in 1..MaxYears, t \in CalcTerminalGrowths }
    \cup
    { CalcArgs(st, CalcFinancials(<<Fix(10), Fix(8)>>, Fix(3), Fix(1), d, i), rf, 1, Dec(25, 1000)) :
        st \in { OrdinaryStock, Stock(Fix(1), 0, Fix(10), Fix(10)), Stock(0, 0, 0, 0) },
        d \in Debts, i \in Interests, rf \in RiskFreeRates }
    \cup
    { CalcArgs(OrdinaryStock, CalcFinancials(<<Fix(10), Fix(8)>>, c[1], c[2], Fix(50), -Fix(2)),
               Dec(4, 100), 1, Dec(25, 1000)) : c \in TaxCases }
    \cup
    { CalcArgs(OrdinaryStock, CalcFinancials(rev, Fix(3), Fix(1), Fix(50), -Fix(2)),
               Dec(4, 100), n, Dec(25, 1000)) : rev \in Revenues, n \in 1..MaxYears }

CallCalc == (\E in \in CalcInputs : CallWith(in)) /\ UNCHANGED runs

NextCalc ==
    \/ CallCalc
    \/ ComputeWacc
    \/ ComputeMetrics
    \/ Project
    \/ ComputeDcf
    \/ Return
    \/ Finish

SpecCalc == Init /\ [][NextCalc]_vars

Next ==
    \/ Register
    \/ Call
    \/ ComputeWacc
    \/ ComputeMetrics
    \/ Project
    \/ ComputeDcf
    \/ Return
    \/ BuildSensitivity
    \/ Finish

Spec == Init /\ [][Next]_vars

\* ------------------------------------------------------------------------
\* Properties
\* ------------------------------------------------------------------------

\* The valuations stored so far in this run.
Valued == DOMAIN results

\* C1: for every scenario evaluated, the discount rate compute_dcf reports
\* as wacc is max(base WACC + wacc_adj, 0.04), base WACC being the wacc of
\* the breakdown compute_wacc returned: it is the sum when the sum is at
\* least 0.04, and exactly 0.04 otherwise, never less.
C1_WaccFloor ==
    \A k \in Valued :
        LET raw == wacc_data.wacc + results[k].scenario.wacc_adj
            w == results[k].dcf.wacc
        IN  /\ w >= Dec(4, 100)
            /\ raw >= Dec(4, 100) => w = raw
            /\ raw < Dec(4, 100) => w = Dec(4, 100)

\* C1 witness: a scenario with wacc_adj = -0.5 whose sum with the base
\* WACC is negative has been valued at exactly 0.04, and another scenario
\* of the same run is valued at its unfloored sum.
C1_Witness ==
    /\ \E k \in Valued :
          /\ results[k].scenario.wacc_adj = -Dec(5, 10)
          /\ wacc_data.wacc + results[k].scenario.wacc_adj < 0
          /\ results[k].dcf.wacc = Dec(4, 100)
    /\ \E k \in Valued : results[k].dcf.wacc > Dec(4, 100)

\* C2: in every valuation, the reported terminal growth is at most the
\* reported wacc less 0.01, so the Gordon-growth divisor wacc - tg is at
\* least 0.01; no divisor of compute_dcf is zero and compute_dcf raises
\* nothing.
C2_TerminalGrowthBelowWacc ==
    /\ \A k \in Valued :
          /\ results[k].dcf.terminal_growth <= results[k].dcf.wacc - Dec(1, 100)
          /\ results[k].dcf.wacc - results[k].dcf.terminal_growth >= Dec(1, 100)
    /\ pc = "dcf" =>
          0 \notin compute_dcf_divisors(projection, wacc_data, scenario, args.stock,
                                        args.terminal_growth)
    /\ error.where # "compute_dcf"

\* C2 witness: a valuation whose configured terminal growth plus
\* adjustment exceeds the scenario WACC, reported as wacc - 0.01.
C2_Witness ==
    \E k \in Valued :
        /\ args.terminal_growth + results[k].scenario.terminal_growth_adj > results[k].dcf.wacc
        /\ results[k].dcf.terminal_growth = results[k].dcf.wacc - Dec(1, 100)

\* C3: every valuation satisfies enterprise_value = pv_fcf_total +
\* pv_terminal_value, pv_fcf_total = sum(pv_fcfs), net_debt =
\* total_debt[0] - cash[0] and equity_value = enterprise_value - net_debt.
C3_BridgeIdentity ==
    \A k \in Valued :
        LET d == results[k].dcf
        IN  /\ d.enterprise_value = d.pv_fcf_total + d.pv_terminal_value
            /\ d.pv_fcf_total = Sum(d.pv_fcfs)
            /\ d.net_debt = args.financials.total_debt[1] - args.financials.cash[1]
            /\ d.equity_value = d.enterprise_value - d.net_debt

\* C3 witness: a valuation of a company with net cash (negative net debt)
\* and a nonzero terminal value.
C3_Witness ==
    \E k \in Valued :
        /\ results[k].dcf.net_debt < 0
        /\ results[k].dcf.pv_terminal_value > 0
        /\ results[k].dcf.equity_value > results[k].dcf.enterprise_value

\* The registry entry of key k.
Registered(k) == CHOOSE sc \in { SCENARIOS[i] : i \in 1..Len(SCENARIOS) } : sc.key = k

\* The keys the loop has not reached.
PendingKeys == { pending[i].key : i \in 1..Len(pending) }

\* C4: in a run, compute_wacc and compute_historical_metrics are each
\* called once, both before any project_fcf or compute_dcf; for every key
\* of the registry project_fcf and then compute_dcf are called once, and
\* when run_all_scenarios returns its scenarios map has exactly the keys of
\* the registry, the entry of each key holding that key's scenario, the
\* projection project_fcf gives for it and the valuation compute_dcf gives
\* for that projection.
C4_OncePerRun ==
    LET n(f, k) == calls[<<f, k>>]
        keys == Keys(SCENARIOS)
    IN  /\ pc = "idle" => \A c \in DOMAIN calls : calls[c] = 0
        /\ pc = "wacc" => \A c \in DOMAIN calls : calls[c] = 0
        /\ pc = "metrics" =>
              /\ n("compute_wacc", "") = 1
              /\ \A c \in DOMAIN calls : c[1] # "compute_wacc" => calls[c] = 0
        /\ pc \in {"loop", "dcf", "returned", "built"} =>
              /\ n("compute_wacc", "") = 1
              /\ n("compute_historical_metrics", "") = 1
              /\ \A k \in keys :
                    /\ n("project_fcf", k) <= 1
                    /\ n("compute_dcf", k) <= n("project_fcf", k)
                    /\ n("compute_dcf", k) = (IF k \in Valued THEN 1 ELSE 0)
                    /\ n("project_fcf", k) = (IF k \in PendingKeys THEN 0 ELSE 1)
        /\ pc = "dcf" => n("project_fcf", scenario.key) = 1 /\ n("compute_dcf", scenario.key) = 0
        /\ pc \in {"returned", "built"} =>
              /\ DOMAIN model_result.scenarios = keys
              /\ \A k \in keys :
                    LET e == model_result.scenarios[k]
                        p == project_fcf(args.financials, model_result.metrics, Registered(k),
                                         args.projection_years)
                    IN  /\ n("project_fcf", k) = 1
                        /\ n("compute_dcf", k) = 1
                        /\ e.scenario = Registered(k)
                        /\ e.projection = p
                        /\ e.dcf = compute_dcf(p, model_result.wacc_data, Registered(k),
                                               args.stock, args.financials, args.terminal_growth)

\* C4 witness: run_all_scenarios has returned with a registry of six
\* entries, the sixth registered after import.
C4_Witness ==
    /\ pc = "returned"
    /\ Len(SCENARIOS) = Len(BUILTIN_SCENARIOS) + 1
    /\ "stress" \in DOMAIN model_result.scenarios

\* What run_all_scenarios stores for key k when it evaluates k alone, from
\* the arguments of the run.
EvaluatedAlone(k) ==
    LET sc == Registered(k)
        m == compute_historical_metrics(args.financials)
        wd == compute_wacc(args.stock, args.financials, args.rates, args.equity_risk_premium)
        p == project_fcf(args.financials, m, sc, args.projection_years)
    IN  [scenario |-> sc, projection |-> p,
         dcf |-> compute_dcf(p, wd, sc, args.stock, args.financials, args.terminal_growth)]

\* C5: whatever the order in which the scenarios of the registry are
\* evaluated, each key maps to the projection and valuation it gets when it
\* is evaluated alone.
C5_OrderIndependent == \A k \in Valued : results[k] = EvaluatedAlone(k)

\* C5 witness: the scenarios were evaluated in an order other than the
\* registry's: bear and rate_cut are stored, base and bull are not yet.
C5_Witness ==
    /\ pc = "loop"
    /\ {"bear", "rate_cut"} \subseteq Valued
    /\ Valued \cap {"base", "bull"} = {}

\* C6: a run given the arguments and the registry of the first run returns
\* the result tree the first run returned, whatever runs happened between.
\* (The registry a caller set up is identified by its keys: entries are
\* written at import and by Register only.)
C6_Deterministic ==
    (pc = "returned" /\ first # None /\ args = first.args /\ Keys(SCENARIOS) = first.keys)
        => model_result = first.result

\* C6 witness: the third run has returned, it was given the arguments of
\* the first, and a run in between was given other arguments.
C6_Witness ==
    /\ pc = "returned"
    /\ runs = 3
    /\ other
    /\ args = first.args
    /\ model_result = first.result

\* Row i and column j of the first grid, from the result tree.
RowWacc(i) == Max(model_result.wacc_data.wacc + WACC_DELTAS[i], Dec(4, 100))

ColTg(j) == Max(model_result.terminal_growth + TG_DELTAS[j], Dec(5, 1000))

\* C7: in the first grid every cell whose row WACC is at most its column
\* terminal growth holds "N/A" and divides by nothing; every other cell
\* holds a number.
C7_NAMarker ==
    sheet # None =>
        \A i \in 1..Len(WACC_DELTAS) : \A j \in 1..Len(TG_DELTAS) :
            LET cell == sheet.wacc_tg[i][j]
                base == model_result.scenarios["base"]
            IN  /\ RowWacc(i) <= ColTg(j) =>
                      /\ cell = NACell
                      /\ WaccTgCellDivisors(base.projection.projected_fcf, RowWacc(i), ColTg(j),
                                            model_result.projection_years,
                                            args.stock.shares_outstanding) = {}
                /\ RowWacc(i) > ColTg(j) => cell.marker = ""

\* C7 witness: a sheet with a cell whose row WACC equals its column
\* terminal growth, a cell whose row WACC is below it, and a numeric cell.
C7_Witness ==
    /\ pc = "built"
    /\ \E i \in 1..Len(WACC_DELTAS) : \E j \in 1..Len(TG_DELTAS) :
          RowWacc(i) = ColTg(j) /\ sheet.wacc_tg[i][j] = NACell
    /\ \E i \in 1..Len(WACC_DELTAS) : \E j \in 1..Len(TG_DELTAS) :
          RowWacc(i) < ColTg(j) /\ sheet.wacc_tg[i][j] = NACell
    /\ \E i \in 1..Len(WACC_DELTAS) : \E j \in 1..Len(TG_DELTAS) :
          sheet.wacc_tg[i][j].marker = "" /\ sheet.wacc_tg[i][j].value # 0

\* C8 (as claimed): when the series of the statements differ in length, the
\* run ends in an error with no breakdown, metrics, projection, valuation or
\* result computed.
C8_FailsFast ==
    (args # None /\ ~Aligned(args.financials)) =>
        /\ wacc_data = None
        /\ metrics = None
        /\ projection = None
        /\ results = << >>
        /\ model_result = None
        /\ pc \in {"wacc", "raised"}

\* C9 (as claimed): no division of the engine or of either grid has a zero
\* divisor, and no run ends in ZeroDivisionError.
C9_NoZeroDivisor == error.type # "ZeroDivisionError"

\* C10: for single-period statements compute_historical_metrics returns an
\* empty revenue_growths, avg_revenue_growth = 0.05, and each margin or
\* ratio average equal to the single period's own value.
C10_SinglePeriod ==
    (metrics # None /\ Len(args.financials.revenue) = 1) =>
        LET f == args.financials
            own(x) == IF f.revenue[1] # 0 THEN FDiv(x, f.revenue[1]) ELSE 0
        IN  /\ metrics.revenue_growths = << >>
            /\ metrics.avg_revenue_growth = Dec(5, 100)
            /\ metrics.avg_operating_margin = metrics.operating_margins[1]
            /\ metrics.avg_operating_margin = own(f.operating_income[1])
            /\ metrics.avg_fcf_margin = own(f.free_cash_flow[1])
            /\ metrics.avg_capex_pct = own(Abs(f.capex[1]))
            /\ metrics.avg_da_pct = own(Abs(f.depreciation[1]))

\* C10 witness: metrics of single-period statements whose operating margin
\* (0.2) and capex ratio (0.1) differ from the defaults (0.15, 0.03).
C10_Witness ==
    /\ metrics # None
    /\ Len(args.financials.revenue) = 1
    /\ metrics.avg_operating_margin = Dec(2, 10)
    /\ metrics.avg_capex_pct = Dec(1, 10)
    /\ metrics.avg_revenue_growth = Dec(5, 100)

\* C11: with total_debt[0] = 0 and interest_expense[0] = 0 the breakdown
\* compute_wacc returns has cost_of_debt = 0, whatever the risk-free rate,
\* and no division of compute_wacc has a zero divisor.
C11_ZeroDebtGuard ==
    (wacc_data # None /\ args.financials.total_debt[1] = 0
        /\ args.financials.interest_expense[1] = 0) =>
        /\ wacc_data.cost_of_debt = 0
        /\ 0 \notin compute_wacc_divisors(args.stock, args.financials)

\* C11 witness: a breakdown for a company without debt or interest, at a
\* negative risk-free rate.
C11_Witness ==
    /\ wacc_data # None
    /\ args.financials.total_debt[1] = 0
    /\ args.financials.interest_expense[1] = 0
    /\ wacc_data.risk_free_rate = -Dec(1, 100)
    /\ wacc_data.cost_of_debt = 0
    /\ wacc_data.cost_of_equity # 0

\* C12: every valuation reports implied_share_price = equity_value / shares
\* when shares_outstanding > 0 and 0 otherwise, upside_downside =
\* (implied_share_price - current_price) / current_price when current_price
\* > 0 and 0 otherwise; with shares <= 0 and current_price > 0 the upside is
\* exactly -1.
C12_PerShare ==
    \A k \in Valued :
        LET d == results[k].dcf
        IN  /\ d.shares_outstanding = args.stock.shares_outstanding
            /\ d.current_price = args.stock.current_price
            /\ d.shares_outstanding > 0 =>
                  d.implied_share_price = FDiv(d.equity_value, d.shares_outstanding)
            /\ d.shares_outstanding <= 0 => d.implied_share_price = 0
            /\ d.current_price > 0 =>
                  d.upside_downside = FDiv(d.implied_share_price - d.current_price, d.current_price)
            /\ d.current_price <= 0 => d.upside_downside = 0
            /\ (d.shares_outstanding <= 0 /\ d.current_price > 0) => d.upside_downside = -One

\* C12 witness: a valuation for a negative share count and a positive
\* price, with a nonzero equity value, reporting price 0 and upside -1.
C12_Witness ==
    \E k \in Valued :
        /\ results[k].dcf.shares_outstanding < 0
        /\ results[k].dcf.current_price > 0
        /\ results[k].dcf.equity_value # 0
        /\ results[k].dcf.implied_share_price = 0
        /\ results[k].dcf.upside_downside = -One

\* C13: during a run the arguments (stock, financials, rates) do not
\* change, the registry changes only when a caller registers an entry
\* between runs, and from the start of the scenario loop to the return the
\* wacc_data and metrics are the values compute_wacc and
\* compute_historical_metrics gave before the loop; the result tree holds
\* exactly these.
C13_InputsAndSharedOutputsUnchanged ==
    /\ [](pc \in {"loop", "dcf", "returned", "built"} =>
            /\ wacc_data = compute_wacc(args.stock, args.financials, args.rates,
                                        args.equity_risk_premium)
            /\ metrics = compute_historical_metrics(args.financials)
            /\ model_result # None =>
                  (model_result.wacc_data = wacc_data /\ model_result.metrics = metrics))
    /\ [][(pc # "idle" /\ pc' # "idle") => args' = args]_vars
    /\ [][(pc # "idle" \/ pc' # "idle") => SCENARIOS' = SCENARIOS]_vars
    /\ [][(pc \in {"loop", "dcf"} /\ pc' \in {"loop", "dcf", "returned"}) =>
            (wacc_data' = wacc_data /\ metrics' = metrics)]_vars

\* C13 witness: a run over six scenarios, among them one whose growth and
\* margin adjustments are nonzero, has returned the metrics computed before
\* the loop.
C13_Witness ==
    /\ pc = "returned"
    /\ Len(SCENARIOS) = 6
    /\ \A k \in Keys(SCENARIOS) : k \in DOMAIN model_result.scenarios
    /\ Len(args.financials.revenue) = 2
    /\ model_result.metrics = compute_historical_metrics(args.financials)
    /\ model_result.wacc_data.wacc # 0

\* C14: every call of fetch_all returns a record with stock, financials,
\* rates and a source that is "live" or "sample"; the source is "sample"
\* whenever force_sample is set, yfinance is unavailable or a step of the
\* live fetch raises; on the sample path a (normalized) ticker of
\* SAMPLE_DATA gets that entry's data and any other ticker the generic
\* sample with ticker and company name replaced; SAMPLE_DATA and
\* GENERIC_SAMPLE stay as built at import.
C14_FetchAll ==
    /\ SAMPLE_DATA = SAMPLE_DATA_IMPORT
    /\ GENERIC_SAMPLE = GENERIC_SAMPLE_IMPORT
    /\ request # None =>
          LET t == NormalTicker(request.ticker)
          IN  /\ fetched # None
              /\ DOMAIN fetched = {"stock", "financials", "rates", "source"}
              /\ fetched.source \in {"live", "sample"}
              /\ (request.force_sample \/ ~HAS_YFINANCE \/ request.raises # "") =>
                    fetched.source = "sample"
              /\ (fetched.source = "sample" /\ t \in DOMAIN SAMPLE_DATA_IMPORT) =>
                    /\ fetched.stock = SAMPLE_DATA_IMPORT[t].stock
                    /\ fetched.financials = SAMPLE_DATA_IMPORT[t].financials
                    /\ fetched.rates = SAMPLE_DATA_IMPORT[t].rates
              /\ (fetched.source = "sample" /\ t \notin DOMAIN SAMPLE_DATA_IMPORT) =>
                    /\ fetched.stock.ticker = t
                    /\ fetched.stock.company_name = t \o <<" (Sample)">>
                    /\ fetched.stock.sector = GENERIC_SAMPLE_IMPORT.stock.sector
                    /\ fetched.financials = GENERIC_SAMPLE_IMPORT.financials
                    /\ fetched.rates = GENERIC_SAMPLE_IMPORT.rates

\* C14 witness: yfinance is available, force_sample is not set, the last
\* step of the live fetch raised, and the call returned the generic sample
\* under the normalized ticker MSFT.
C14_Witness ==
    /\ request # None
    /\ HAS_YFINANCE
    /\ ~request.force_sample
    /\ request.raises = "fetch_rates_live"
    /\ request.ticker = <<"m", "s", "f", "t">>
    /\ fetched.source = "sample"
    /\ fetched.stock.ticker = <<"M", "S", "F", "T">>
    /\ fetched.stock.company_name = <<"M", "S", "F", "T", " (Sample)">>

\* C15: in every valuation the terminal growth is the sum of the
\* configured terminal growth and the scenario's adjustment clamped to
\* [0.005, wacc - 0.01], wacc being the floored scenario WACC: at least
\* 0.005, at most wacc - 0.01, the sum itself when the sum is within the
\* bounds (wacc = 0.04 and sum 0.06 give 0.03), and the lower bound is below
\* the upper.
C15_TerminalGrowthClamp ==
    \A k \in Valued :
        LET sum == args.terminal_growth + results[k].scenario.terminal_growth_adj
            w == results[k].dcf.wacc
            tg == results[k].dcf.terminal_growth
        IN  /\ w = Max(wacc_data.wacc + results[k].scenario.wacc_adj, Dec(4, 100))
            /\ Dec(5, 1000) < w - Dec(1, 100)
            /\ tg >= Dec(5, 1000)
            /\ tg <= w - Dec(1, 100)
            /\ (sum >= Dec(5, 1000) /\ sum <= w - Dec(1, 100)) => tg = sum
            /\ sum < Dec(5, 1000) => tg = Dec(5, 1000)
            /\ sum > w - Dec(1, 100) => tg = w - Dec(1, 100)
            /\ (w = Dec(4, 100) /\ sum = Dec(6, 100)) => tg = Dec(3, 100)

\* C15 witness: a run whose configured terminal growth is 0 has valued one
\* scenario whose sum is below 0.005 at 0.005 and another at its sum.
C15_Witness ==
    /\ args # None
    /\ args.terminal_growth = 0
    /\ \E k \in Valued :
          /\ results[k].scenario.terminal_growth_adj < 0
          /\ results[k].dcf.terminal_growth = Dec(5, 1000)
    /\ \E k \in Valued :
          /\ results[k].scenario.terminal_growth_adj > 0
          /\ results[k].dcf.terminal_growth = results[k].scenario.terminal_growth_adj

\* |interest_expense[0]|, as every reading of the cost of debt takes it.
AbsInterest == Abs(args.financials.interest_expense[1])

\* C16 (as claimed): cost_of_debt is |interest_expense[0]| divided by
\* total_debt[0] when that is nonzero, positive or negative, and by 1 when
\* it is zero; the risk-free rate is never substituted.
C16_InterestOverDebt ==
    wacc_data # None =>
        LET debt0 == args.financials.total_debt[1]
        IN  wacc_data.cost_of_debt = FDiv(AbsInterest, IF debt0 # 0 THEN debt0 ELSE One)

\* C16 (amended): cost_of_debt is |interest_expense[0]| divided by
\* total_debt[0] when total_debt[0] is positive and by 1 when it is zero;
\* when total_debt[0] is negative it is the risk-free rate.
C16_CostOfDebt ==
    wacc_data # None =>
        LET debt0 == args.financials.total_debt[1]
        IN  /\ debt0 > 0 => wacc_data.cost_of_debt = FDiv(AbsInterest, debt0)
            /\ debt0 = 0 => wacc_data.cost_of_debt = FDiv(AbsInterest, One)
            /\ debt0 < 0 => wacc_data.cost_of_debt = args.rates.risk_free_rate

\* C16 witness: a breakdown for a negative debt with a nonzero interest
\* expense, whose cost of debt is the risk-free rate and not the quotient.
C16_Witness ==
    /\ wacc_data # None
    /\ args.financials.total_debt[1] < 0
    /\ args.financials.interest_expense[1] # 0
    /\ wacc_data.cost_of_debt = args.rates.risk_free_rate
    /\ wacc_data.cost_of_debt # FDiv(AbsInterest, args.financials.total_debt[1])

\* C17 (as claimed): tax_rate of compute_wacc is |tax_provision[0]| /
\* pretax_income with pretax_income = max(|net_income[0]| +
\* |tax_provision[0]|, 1), and 0.21 only if pretax_income <= 0.
C17_TaxRateFlooredPretax ==
    wacc_data # None =>
        LET tax_prov == Abs(args.financials.tax_provision[1])
            pretax_income == Max(Abs(args.financials.net_income[1]) + tax_prov, One)
        IN  wacc_data.tax_rate =
                (IF pretax_income > 0 THEN FDiv(tax_prov, pretax_income) ELSE Dec(21, 100))

\* C18 (as claimed): the tax_rate project_fcf returns is the tax_rate
\* compute_wacc returned for the same statements.
C18_SameTaxRate ==
    (wacc_data # None /\ projection # None) => projection.tax_rate = wacc_data.tax_rate

\* The equity value of the claim: market_cap when nonzero, else price x shares.
ClaimedEquity ==
    IF args.stock.market_cap # 0 THEN args.stock.market_cap
    ELSE FMul(args.stock.current_price, args.stock.shares_outstanding)

\* C19 (as claimed): equity_value is market_cap when nonzero, else
\* current_price x shares_outstanding, debt_value is total_debt[0]; the
\* weights are equity_value and debt_value over their sum for every nonzero
\* sum, negative ones included, and 0.7 / 0.3 exactly when the sum is 0.
C19_WeightsUnlessZero ==
    wacc_data # None =>
        LET e == ClaimedEquity
            d == args.financials.total_debt[1]
        IN  /\ wacc_data.equity_value = e
            /\ wacc_data.debt_value = d
            /\ e + d # 0 =>
                  /\ wacc_data.weight_equity = FDiv(e, e + d)
                  /\ wacc_data.weight_debt = FDiv(d, e + d)
            /\ e + d = 0 =>
                  /\ wacc_data.weight_equity = Dec(7, 10)
                  /\ wacc_data.weight_debt = Dec(3, 10)

\* C19 (amended): equity_value and debt_value as claimed; the weights are
\* equity_value and debt_value over their sum for every positive sum, and
\* 0.7 / 0.3 exactly when the sum is 0 or negative.
C19_WeightsIfPositive ==
    wacc_data # None =>
        LET e == ClaimedEquity
            d == args.financials.total_debt[1]
        IN  /\ wacc_data.equity_value = e
            /\ wacc_data.debt_value = d
            /\ e + d > 0 =>
                  /\ wacc_data.weight_equity = FDiv(e, e + d)
                  /\ wacc_data.weight_debt = FDiv(d, e + d)
            /\ e + d <= 0 =>
                  /\ wacc_data.weight_equity = Dec(7, 10)
                  /\ wacc_data.weight_debt = Dec(3, 10)

\* C19 witness: a breakdown for an equity value taken from price x shares
\* (no market cap) and a debt that makes the total capital negative, with
\* the fallback weights.
C19_Witness ==
    /\ wacc_data # None
    /\ args.stock.market_cap = 0
    /\ wacc_data.equity_value = Fix(100)
    /\ wacc_data.equity_value + wacc_data.debt_value < 0
    /\ wacc_data.weight_equity = Dec(7, 10)
    /\ wacc_data.weight_debt = Dec(3, 10)

\* The arithmetic mean of a nonempty list.
Mean(s) == FDiv(Sum(s), Fix(Len(s)))

\* C20: for a K-period revenue series compute_historical_metrics returns
\* K - 1 growth samples, sample i being (revenue[i] - revenue[i+1]) /
\* |revenue[i+1]| for a nonzero revenue[i+1] (so a rise from a negative
\* revenue is a positive growth) and 0 for a zero one; each of the five
\* margin and ratio lists has K entries, 0 wherever revenue[i] is 0; every
\* average of a nonempty list is its arithmetic mean.
C20_MetricsShape ==
    (metrics # None /\ Aligned(args.financials)) =>
        LET rev == args.financials.revenue
            K == Len(rev)
            lists == << metrics.operating_margins, metrics.net_margins, metrics.fcf_margins,
                        metrics.capex_pcts, metrics.da_pcts >>
        IN  /\ Len(metrics.revenue_growths) = K - 1
            /\ \A i \in 1..(K - 1) :
                  /\ rev[i + 1] # 0 =>
                        metrics.revenue_growths[i] = FDiv(rev[i] - rev[i + 1], Abs(rev[i + 1]))
                  /\ rev[i + 1] = 0 => metrics.revenue_growths[i] = 0
                  /\ (rev[i + 1] # 0 /\ rev[i] > rev[i + 1]) => metrics.revenue_growths[i] >= 0
                  /\ (rev[i + 1] # 0 /\ rev[i] < rev[i + 1]) => metrics.revenue_growths[i] <= 0
            /\ \A n \in 1..Len(lists) :
                  /\ Len(lists[n]) = K
                  /\ \A i \in 1..K : rev[i] = 0 => lists[n][i] = 0
            /\ \A i \in 1..K : rev[i] # 0 =>
                  /\ metrics.operating_margins[i] = FDiv(args.financials.operating_income[i], rev[i])
                  /\ metrics.capex_pcts[i] = FDiv(Abs(args.financials.capex[i]), rev[i])
            /\ K > 1 => metrics.avg_revenue_growth = Mean(metrics.revenue_growths)
            /\ metrics.avg_operating_margin = Mean(metrics.operating_margins)
            /\ metrics.avg_fcf_margin = Mean(metrics.fcf_margins)
            /\ metrics.avg_capex_pct = Mean(metrics.capex_pcts)
            /\ metrics.avg_da_pct = Mean(metrics.da_pcts)

\* C20 witness: metrics of a two-period series whose earlier revenue is
\* negative: one growth sample, (10 + 8) / 8 = 2.25, and two entries in
\* each margin list.
C20_Witness ==
    /\ metrics # None
    /\ Len(args.financials.revenue) = 2
    /\ args.financials.revenue[2] < 0
    /\ metrics.revenue_growths = << Dec(225, 100) >>
    /\ Len(metrics.fcf_margins) = 2
    /\ metrics.avg_revenue_growth = Dec(225, 100)

\* C21: in every projection, adj_growth is max(avg_revenue_growth +
\* revenue_growth_adj, -0.15) and adj_margin is max(avg_operating_margin +
\* margin_adj, 0.01); every entry of margins is adj_margin, which is at least
\* 0.01 (the margin is held flat), every EBIT is the revenue of its year
\* times adj_margin, and the rate of the first year (fade factor 1) is
\* adj_growth, raised to 0.005 when it is positive.
C21_AdjustedBaselines ==
    (projection # None /\ scenario # None /\ metrics # None) =>
        LET adj_growth == Max(metrics.avg_revenue_growth + scenario.revenue_growth_adj,
                              -Dec(15, 100))
            adj_margin == Max(metrics.avg_operating_margin + scenario.margin_adj, Dec(1, 100))
        IN  /\ adj_margin >= Dec(1, 100)
            /\ adj_growth >= -Dec(15, 100)
            /\ projection.growth_rates[1] =
                   (IF adj_growth > 0 THEN Max(adj_growth, Dec(5, 1000)) ELSE adj_growth)
            /\ \A t \in 1..Len(projection.margins) :
                  /\ projection.margins[t] = adj_margin
                  /\ projection.projected_ebit[t] =
                         FMul(projection.projected_revenue[t], adj_margin)

\* C21 witness: a two-year projection whose sums are below both floors:
\* the rate of the first year is -0.15, both margins are 0.01 and the EBIT
\* of each year is a hundredth of its revenue.
C21_Witness ==
    /\ projection # None /\ scenario # None /\ metrics # None
    /\ Len(projection.margins) = 2
    /\ metrics.avg_revenue_growth + scenario.revenue_growth_adj < -Dec(15, 100)
    /\ metrics.avg_operating_margin + scenario.margin_adj < Dec(1, 100)
    /\ projection.growth_rates[1] = -Dec(15, 100)
    /\ projection.margins = << Dec(1, 100), Dec(1, 100) >>
    /\ projection.projected_revenue[2] # 0
    /\ projection.projected_ebit[2] = FMul(projection.projected_revenue[2], Dec(1, 100))

\* The adjusted growth rate of the projection at hand (line 212).
AdjGrowthOfRun ==
    Max(metrics.avg_revenue_growth + scenario.revenue_growth_adj, -Dec(15, 100))

\* adj_growth x (1 - (t - 1) / (2N)): the faded rate of year t before any
\* floor.
FadedRate(adj_growth, t, N) == FMul(adj_growth, One - FDiv(Fix(t - 1), Fix(2 * N)))

\* C22: for every year t of a projection over N years, the rate of the year
\* is adj_growth x (1 - (t - 1) / (2N)), replaced by 0.005 exactly when
\* adj_growth is positive and the faded value is below 0.005; a zero or
\* negative adj_growth is faded and never floored.
C22_FadedGrowth ==
    (projection # None /\ scenario # None /\ metrics # None) =>
        LET N == projection.projection_years
        IN  /\ Len(projection.growth_rates) = N
            /\ \A t \in 1..N :
                  LET faded == FadedRate(AdjGrowthOfRun, t, N)
                  IN  projection.growth_rates[t] =
                         (IF AdjGrowthOfRun > 0 /\ faded < Dec(5, 1000)
                          THEN Dec(5, 1000) ELSE faded)

\* C22 witness: a positive adj_growth of 0.006 over two years: the first
\* year keeps 0.006, the second fades to 0.0045 and is raised to 0.005.
C22_Witness ==
    /\ projection # None /\ scenario # None /\ metrics # None
    /\ projection.projection_years = 2
    /\ AdjGrowthOfRun = Dec(6, 1000)
    /\ FadedRate(AdjGrowthOfRun, 2, 2) < Dec(5, 1000)
    /\ projection.growth_rates = << Dec(6, 1000), Dec(5, 1000) >>

\* The running product revenue[0] x (1 + growth_1) x ... x (1 + growth_t),
\* the compounding the projection is compared with.
RECURSIVE RunningRevenue(_, _, _)
RunningRevenue(base_rev, growth_rates, t) ==
    IF t = 0 THEN base_rev
    ELSE FMul(RunningRevenue(base_rev, growth_rates, t - 1), One + growth_rates[t])

\* C23 as stated: the revenue of year t is revenue[0] x (1 + growth_t)^t,
\* and it differs from the running product in every year t >= 2 whenever
\* adj_growth is not 0.
C23_AnchoredAndDistinct ==
    (projection # None /\ scenario # None /\ metrics # None) =>
        LET base_rev == args.financials.revenue[1]
        IN  \A t \in 1..projection.projection_years :
              /\ projection.projected_revenue[t] =
                     FMul(base_rev, FPow(One + projection.growth_rates[t], t))
              /\ (t >= 2 /\ AdjGrowthOfRun # 0) =>
                     projection.projected_revenue[t] #
                        RunningRevenue(base_rev, projection.growth_rates, t)

\* C23 amended: the revenue of year t is revenue[0] x (1 + growth_t)^t; it
\* differs from the running product in every year t >= 2 whose rate is not
\* the rate of the first year, provided revenue[0] is not 0; when
\* revenue[0] is 0 both are 0.
C23_AnchoredRevenue ==
    (projection # None /\ scenario # None /\ metrics # None) =>
        LET base_rev == args.financials.revenue[1]
        IN  \A t \in 1..projection.projection_years :
              /\ projection.projected_revenue[t] =
                     FMul(base_rev, FPow(One + projection.growth_rates[t], t))
              /\ (t >= 2 /\ base_rev # 0
                        /\ projection.growth_rates[t] # projection.growth_rates[1]) =>
                     projection.projected_revenue[t] #
                        RunningRevenue(base_rev, projection.growth_rates, t)
              /\ base_rev = 0 =>
                     /\ projection.projected_revenue[t] = 0
                     /\ RunningRevenue(base_rev, projection.growth_rates, t) = 0

\* C23 witness: two years from a revenue of 10 with a rate that fades: the
\* revenue of the second year is 10 x (1 + growth_2)^2, not the running
\* product.
C23_Witness ==
    /\ projection # None /\ scenario # None /\ metrics # None
    /\ projection.projection_years = 2
    /\ args.financials.revenue[1] = Fix(10)
    /\ projection.growth_rates[2] # projection.growth_rates[1]
    /\ projection.projected_revenue[2] =
           FMul(Fix(10), FPow(One + projection.growth_rates[2], 2))
    /\ projection.projected_revenue[2] #
           RunningRevenue(Fix(10), projection.growth_rates, 2)

DcfPriceAt(fcfs, wacc, tg, net_debt, shares) ==
    LET pv_fcf_total == Sum([t \in 1..Len(fcfs) |-> FDiv(fcfs[t], FPow(One + wacc, t))])
        terminal_value == FDiv(FMul(fcfs[Len(fcfs)], One + tg), wacc - tg)
        pv_terminal == FDiv(terminal_value, FPow(One + wacc, Len(fcfs)))
        equity_value == pv_fcf_total + pv_terminal - net_debt
    IN  IF shares > 0 THEN FDiv(equity_value, shares) ELSE 0

\* C25: the first grid has 7 rows, the base WACC plus -3%..+3% each floored
\* at 4%, and 7 columns, the configured terminal growth plus -1.5%..+1.5%
\* each floored at 0.5%; every cell whose row WACC exceeds its column
\* terminal growth is the price the formulas of compute_dcf give at that
\* pair for the projected cash flows of the base scenario, with the net debt
\* and the share count of the base case.
C25_WaccTgGrid ==
    sheet # None =>
        LET base == model_result.scenarios["base"]
        IN  /\ Len(sheet.wacc_tg) = 7
            /\ \A i \in 1..7 :
                  /\ Len(sheet.wacc_tg[i]) = 7
                  /\ RowWacc(i) = Max(model_result.wacc_data.wacc + Dec(i - 4, 100), Dec(4, 100))
                  /\ \A j \in 1..7 :
                        /\ ColTg(j) = Max(model_result.terminal_growth + Dec(5 * (j - 4), 1000),
                                          Dec(5, 1000))
                        /\ RowWacc(i) > ColTg(j) =>
                              sheet.wacc_tg[i][j] =
                                 NumberCell(DcfPriceAt(base.projection.projected_fcf,
                                                       RowWacc(i), ColTg(j), base.dcf.net_debt,
                                                       base.dcf.shares_outstanding))

\* C25 witness: a sheet over a two-year projection whose corner cells are
\* both prices, the one at the lowest WACC and highest terminal growth
\* above the one at the highest WACC and lowest terminal growth.
C25_Witness ==
    /\ sheet # None
    /\ model_result.projection_years = 2
    /\ RowWacc(1) > ColTg(7)
    /\ sheet.wacc_tg[1][7].marker = "" /\ sheet.wacc_tg[7][1].marker = ""
    /\ sheet.wacc_tg[1][7].value > sheet.wacc_tg[7][1].value
    /\ sheet.wacc_tg[7][1].value > 0

\* The cash flows the rules of project_fcf give over N years when the
\* adjusted growth is gr and the adjusted margin max(mg, 0.01).
ProjectorFcfs(gr, mg, N) ==
    [yr \in 1..N |->
        ProjectYear(args.financials.revenue[1], gr, Max(mg, Dec(1, 100)),
                    model_result.scenarios["base"].projection.tax_rate,
                    model_result.metrics.avg_da_pct, model_result.metrics.avg_capex_pct,
                    yr, N).fcf]

\* C26 as stated: every cell of the second grid is the price obtained by
\* projecting with the rules of project_fcf (fade, 0.005 floor on positive
\* growth, 0.01 margin floor, anchored revenue) from the cell's growth and
\* margin, and valuing the path as compute_dcf does at the WACC and the
\* terminal growth of the base valuation (after the floor and the clamp),
\* with the net debt and share count of the base case.
C26_GrowthMarginGrid ==
    (sheet # None /\ sheet.growth_margin # None) =>
        LET base == model_result.scenarios["base"]
            m == model_result.metrics
        IN  \A i \in 1..Len(GROWTH_DELTAS) : \A j \in 1..Len(MARGIN_DELTAS) :
                sheet.growth_margin[i][j] =
                   NumberCell(DcfPriceAt(
                       ProjectorFcfs(m.avg_revenue_growth + GROWTH_DELTAS[i],
                                     m.avg_operating_margin + MARGIN_DELTAS[j],
                                     model_result.projection_years),
                       base.dcf.wacc, base.dcf.terminal_growth, base.dcf.net_debt,
                       base.dcf.shares_outstanding))

\* C27: in every breakdown compute_wacc returns, the two weights are the
\* quotients of equity and debt by their positive sum, or 0.7 and 0.3; in
\* both cases they add up to 1 (to within one unit of the last digit kept,
\* each quotient being rounded), and wacc is the blend weight_equity x
\* cost_of_equity + weight_debt x cost_of_debt x (1 - tax_rate).
C27_UnitWeights ==
    wacc_data # None =>
        LET total_value == wacc_data.equity_value + wacc_data.debt_value
        IN  /\ Abs(wacc_data.weight_equity + wacc_data.weight_debt - One) <= 1
            /\ total_value > 0 =>
                  /\ wacc_data.weight_equity = FDiv(wacc_data.equity_value, total_value)
                  /\ wacc_data.weight_debt = FDiv(wacc_data.debt_value, total_value)
            /\ total_value <= 0 =>
                  wacc_data.weight_equity + wacc_data.weight_debt = One
            /\ wacc_data.wacc =
                   FMul(wacc_data.weight_equity, wacc_data.cost_of_equity)
                   + FMul(FMul(wacc_data.weight_debt, wacc_data.cost_of_debt),
                          One - wacc_data.tax_rate)

\* C27 witness: a breakdown with computed weights where the debt is
\* negative and smaller than the equity: the weights are 2 and -1.
C27_Witness ==
    /\ wacc_data # None
    /\ wacc_data.debt_value < 0
    /\ wacc_data.equity_value + wacc_data.debt_value > 0
    /\ wacc_data.weight_equity = Fix(2)
    /\ wacc_data.weight_debt = -Fix(1)

\* C28 as stated: every effective tax rate the engine produces, the
\* tax_rate of the breakdown of compute_wacc and the tax_rate of every
\* projection, is at least 0 and at most 1.
C28_TaxRatesInUnitInterval ==
    /\ wacc_data # None => (wacc_data.tax_rate >= 0 /\ wacc_data.tax_rate <= One)
    /\ projection # None => (projection.tax_rate >= 0 /\ projection.tax_rate <= One)

\* -1, 0 or 1 as x is negative, zero or positive.
Sign(x) == IF x < 0 THEN -1 ELSE IF x = 0 THEN 0 ELSE 1

\* C29: every rate of a projection is bounded by its adj_growth: when
\* adj_growth is zero or negative the rate lies between adj_growth (itself
\* at least -0.15) and 0; when adj_growth is positive the rate lies between
\* 0.005 and max(adj_growth, 0.005).  Hence 1 + rate is at least 0.85 and
\* every projected revenue has the sign of revenue[0].
C29_BoundedGrowth ==
    (projection # None /\ scenario # None /\ metrics # None) =>
        \A t \in 1..projection.projection_years :
            LET g == projection.growth_rates[t]
            IN  /\ AdjGrowthOfRun <= 0 =>
                      (-Dec(15, 100) <= AdjGrowthOfRun /\ AdjGrowthOfRun <= g /\ g <= 0)
                /\ AdjGrowthOfRun > 0 =>
                      (Dec(5, 1000) <= g /\ g <= Max(AdjGrowthOfRun, Dec(5, 1000)))
                /\ One + g >= Dec(85, 100)
                /\ Sign(projection.projected_revenue[t]) = Sign(args.financials.revenue[1])

\* C29 witness: two years from a revenue of -10 whose growth sum is below
\* the floor: the rates are -0.15 and a faded negative rate above it, and
\* both projected revenues are negative.
C29_Witness ==
    /\ projection # None /\ scenario # None /\ metrics # None
    /\ projection.projection_years = 2
    /\ args.financials.revenue[1] = -Fix(10)
    /\ metrics.avg_revenue_growth + scenario.revenue_growth_adj < -Dec(15, 100)
    /\ projection.growth_rates[1] = -Dec(15, 100)
    /\ projection.growth_rates[2] > -Dec(15, 100) /\ projection.growth_rates[2] < 0
    /\ projection.projected_revenue[1] < 0 /\ projection.projected_revenue[2] < 0

\* C30 as stated: the centre cell of the first grid (row delta 0, column
\* delta 0) is the implied share price of the base valuation, the row and
\* the column of the centre being the WACC and the terminal growth that
\* compute_dcf used for the base scenario.
C30_CentreCellIsBasePrice ==
    sheet # None =>
        LET base == model_result.scenarios["base"]
        IN  /\ RowWacc(4) = base.dcf.wacc
            /\ ColTg(4) = base.dcf.terminal_growth
            /\ sheet.wacc_tg[4][4] = NumberCell(base.dcf.implied_share_price)

====
